---- MODULE Spec2Model ----
(***************************************************************************)
(* Model of the form-to-AirTable relay: the field coercers, the linked     *)
(* record resolver with its per-process cache, the list reconciliation,    *)
(* the FIELD_MAP-driven transform and the /submit handler.                 *)
(*                                                                         *)
(* request.form is a werkzeug MultiDict: every key maps to a list of       *)
(* strings, d[k] is the first string of the list (KeyError when the key is *)
(* missing) and d.getlist(k) is the whole list (empty when missing).  A    *)
(* form is modelled as a function from Keys to sequences, <<>> for a key   *)
(* that is missing.  The strings of the numeric fields are sequences of    *)
(* characters, so that int() is modelled by the parse it performs.         *)
(***************************************************************************)
EXTENDS Integers, Sequences, FiniteSets, TLC

VARIABLES
    pc,         \* per request thread: where it is in submit()
    form,       \* per thread: request.form of the request being handled
    fi,         \* per thread: index in FIELD_MAP of the entry being evaluated
    vals,       \* per thread: the inner dict of transform_form_to_airtable so far
    ni,         \* per thread: index of the next name of the list comprehension
    acc,        \* per thread: the list the comprehension has built so far
    found,      \* per thread: record_id returned by record_id_by_name
    row,        \* per thread: the row transform_form_to_airtable returned
    raised,     \* per thread: the exception that left the try block of submit()
    attempts,   \* per thread: calls of volunteer_table.insert for this request
    response,   \* per thread: the response submit() returned
    cache,      \* per linked table: AirTableLinkedRecords._cache
    use_cache,  \* per linked table: AirTableLinkedRecords._use_cache
    remote,     \* per linked table: name -> ids of the records search() finds
    stored,     \* number of rows of the remote volunteer table
    stats,      \* per linked table and name: lookups completed, searches issued,
                \* values returned by resolver[name] (history)
    served,     \* requests received so far
    changes     \* changes of the remote linked tables so far

vars == <<pc, form, fi, vals, ni, acc, found, row, raised, attempts, response,
          cache, use_cache, remote, stored, stats, served, changes>>

-----------------------------------------------------------------------------
(* Bounds *)

MaxRemoteChanges == 2
MaxListLen == 2

-----------------------------------------------------------------------------
(* Python values and call outcomes *)

NoneV == [t |-> "none", v |-> "None"]
StrV(s) == [t |-> "str", v |-> s]
IntV(i) == [t |-> "int", v |-> i]
BoolV(b) == [t |-> "bool", v |-> b]
ListV(l) == [t |-> "list", v |-> l]

Ok(v) == [exc |-> "none", val |-> v]
Raise(e) == [exc |-> e, val |-> NoneV]

-----------------------------------------------------------------------------
(* MultiDict access *)

Keys == {"name", "email", "city", "country", "linked-in", "github",
         "non-profit-experience", "tech-exp", "student", "mentor", "roles[]",
         "types[]", "skills[]", "causes[]", "hours", "project", "other",
         "recommendations", "org"}

\* key in d
HasKey(d, k) == k \in Keys /\ d[k] # <<>>

\* d[k]
Item(d, k) == IF HasKey(d, k) THEN Ok(Head(d[k])) ELSE Raise("KeyError")

\* _get_list(field_name)(d)
_get_list(field_name, d) == d[field_name]

-----------------------------------------------------------------------------
(* int() of a string, given as its characters *)

DigitVal == [c \in {"0", "1", "2", "3", "4", "5", "6", "7", "8", "9"} |->
               CASE c = "0" -> 0 [] c = "1" -> 1 [] c = "2" -> 2 [] c = "3" -> 3
                 [] c = "4" -> 4 [] c = "5" -> 5 [] c = "6" -> 6 [] c = "7" -> 7
                 [] c = "8" -> 8 [] c = "9" -> 9]

RECURSIVE LStrip(_)
LStrip(s) == IF s # <<>> /\ Head(s) = " " THEN LStrip(Tail(s)) ELSE s

RECURSIVE RStrip(_)
RStrip(s) == IF s # <<>> /\ s[Len(s)] = " " THEN RStrip(SubSeq(s, 1, Len(s) - 1)) ELSE s

RECURSIVE DigitsValue(_)
DigitsValue(s) ==
    IF s = <<>> THEN 0
    ELSE 10 * DigitsValue(SubSeq(s, 1, Len(s) - 1)) + DigitVal[s[Len(s)]]

\* int(s): surrounding blanks are dropped, then an optional sign and at least one
\* decimal digit; anything else is a ValueError
PyInt(s) ==
    LET u == RStrip(LStrip(s))
        signed == u # <<>> /\ Head(u) \in {"-", "+"}
        body == IF signed THEN Tail(u) ELSE u
    IN  IF body = <<>> \/ \E i \in 1..Len(body) : body[i] \notin DOMAIN DigitVal
        THEN Raise("ValueError")
        ELSE Ok(IntV(IF signed /\ Head(u) = "-" THEN 0 - DigitsValue(body)
                    ELSE DigitsValue(body)))

-----------------------------------------------------------------------------
(* Field coercers *)

\* _to_pos_int(field_name)(d): d[field_name] is outside what except ValueError
\* catches, so its KeyError leaves the accessor
_to_pos_int(field_name, d) ==
    LET got == Item(d, field_name)
    IN  IF got.exc # "none" THEN got
        ELSE LET i == PyInt(got.val)
             IN  IF i.exc = "ValueError" THEN Ok(IntV(0))
                 ELSE IF i.val.v < 0 THEN Ok(IntV(0))
                 ELSE i

\* a mutation of _checkbox_to_bool: an unchecked box gives False
_checkbox_to_bool_false(field_name, d) ==
    IF HasKey(d, field_name) /\ Head(d[field_name]) = "on" THEN Ok(BoolV(TRUE))
    ELSE Ok(BoolV(FALSE))

\* _checkbox_to_bool(field_name)(d): falls off the end (None) unless "on"
_checkbox_to_bool(field_name, d) ==
    IF HasKey(d, field_name) /\ Head(d[field_name]) = "on" THEN Ok(BoolV(TRUE))
    ELSE Ok(NoneV)

-----------------------------------------------------------------------------
(* List helpers *)

RECURSIVE Join(_)
\* ", ".join(values)
Join(values) ==
    IF values = <<>> THEN ""
    ELSE IF Len(values) = 1 THEN values[1]
    ELSE values[1] \o ", " \o Join(Tail(values))

_list_to_string(values) == StrV(Join(values))

RECURSIVE Filter(_, _, _)
\* [v for v in values if (v in members) = keep]
Filter(values, members, keep) ==
    IF values = <<>> THEN <<>>
    ELSE IF (Head(values) \in members) = keep
         THEN <<Head(values)>> \o Filter(Tail(values), members, keep)
         ELSE Filter(Tail(values), members, keep)

_filter_in_list(values, members) == Filter(values, members, TRUE)

_filter_not_in_list(values, members) == Filter(values, members, FALSE)

_remap_list(values, mapping) ==
    [i \in 1..Len(values) |->
        IF values[i] \in DOMAIN mapping THEN mapping[values[i]] ELSE values[i]]

RECURSIVE _filter_none(_)
\* [v for v in values if v is not None]
_filter_none(values) ==
    IF values = <<>> THEN <<>>
    ELSE IF Head(values) = NoneV THEN _filter_none(Tail(values))
    ELSE <<Head(values)>> \o _filter_none(Tail(values))

StrList(values) == ListV([i \in 1..Len(values) |-> StrV(values[i])])

VALID_ROLES == {"Developer", "Project Lead", "System Architect", "QA", "Designer"}

VALID_TYPES == {"Mentoring Organizations", "Mentoring Students",
                "Volunteering - Project Based", "Volunteering - Task Based"}

CAUSES_MAP ==
    [k \in {"No Poverty", "Zero Hunger", "Good Health & Well-Being",
            "Quality Education", "Gender Equality", "Clean Water & Sanitation",
            "Affordable & Clean Energy", "Decent Work & Economic Growth",
            "Industry Innovation & Infrastructure", "Reducing Inequality",
            "Sustainable Cities & Communities",
            "Responsible Consumption & Production", "Climate Action",
            "Life below Water", "Life on Land",
            "Peace, Justice, & Strong Institutions",
            "Partnerships to Achieve the Goal"} |->
        CASE k = "No Poverty" -> "1. No Poverty"
          [] k = "Zero Hunger" -> "2. Zero Hunger"
          [] k = "Good Health & Well-Being" -> "3. Good Health and Well-being"
          [] k = "Quality Education" -> "4. Quality Education"
          [] k = "Gender Equality" -> "5. Gender Equality"
          [] k = "Clean Water & Sanitation" -> "6. Clean Water and Sanitation"
          [] k = "Affordable & Clean Energy" -> "7. Affordable and Clean Energy"
          [] k = "Decent Work & Economic Growth" -> "8. Decent Work and Economic Growth"
          [] k = "Industry Innovation & Infrastructure" -> "9. Industry Innovation and Infrastructure"
          [] k = "Reducing Inequality" -> "10. Reduced Inequalities"
          [] k = "Sustainable Cities & Communities" -> "11. Sustainable Cities and Communities"
          [] k = "Responsible Consumption & Production" -> "12. Responsible Consumption and Production"
          [] k = "Climate Action" -> "13. Climate Action"
          [] k = "Life below Water" -> "14. Life below Water"
          [] k = "Life on Land" -> "15. Life on Land"
          [] k = "Peace, Justice, & Strong Institutions" -> "16: Peace, Justice and Strong Institutions"
          [] k = "Partnerships to Achieve the Goal" -> "17: Partnerships to achieve the Goal"]

-----------------------------------------------------------------------------
(* Linked record tables *)

Tables == {"Skills", "Causes"}

\* the names the forms of the model submit, as they reach the resolver
LinkedNames(tb) ==
    IF tb = "Skills" THEN {"Python", "Knitting"} ELSE {"1. No Poverty", "Space Travel"}

RecId(n) == "rec:" \o n

OtherRecId(n) == "rec2:" \o n

\* what table.search(key_col, n) can find: no record, one, or two sharing the name
SearchResults(n) == {<<>>, <<RecId(n)>>, <<OtherRecId(n), RecId(n)>>}

\* the names that have an entry in the cache
Cached(tb) == DOMAIN cache[tb]

-----------------------------------------------------------------------------
(* FIELD_MAP *)

Literal(dest, key) ==
    [dest |-> dest, callable |-> FALSE, fn |-> "literal", key |-> key, table |-> ""]

Func(dest, fn, key, table) ==
    [dest |-> dest, callable |-> TRUE, fn |-> fn, key |-> key, table |-> table]

FIELD_MAP ==
    << Literal("Name", "name"),
       Literal("Email", "email"),
       Func("Country & City of residence", "city_country", "", ""),
       Literal("LinkedIn", "linked-in"),
       Literal("GitHub", "github"),
       Literal("Have you ever volunteered for a nonprofit before? If yes,  please specify.",
               "non-profit-experience"),
       Func("How many years of technical experience do you have?", "to_pos_int", "tech-exp", ""),
       Func("Are you a student?", "checkbox", "student", ""),
       Func("Are you interested in mentoring?", "checkbox", "mentor", ""),
       Func("What role would you be most interested in playing?", "valid_roles", "roles[]", ""),
       Func("volunteering_type", "valid_types", "types[]", ""),
       Func("other_roles", "other_roles", "roles[]", ""),
       Func("What amazing skills are you bringing?", "convert", "skills[]", "Skills"),
       Func("Which causes are you most motivated by?", "convert", "causes[]", "Causes"),
       Func("How many hours can you commit weekly?", "to_pos_int", "hours", ""),
       Literal("Are you interested in a specific project?", "project"),
       Literal("Is there anything else we should know about you?", "other"),
       Literal("Would you like to recommend other impactful projects or organizations that should be featured on the hub?",
               "recommendations"),
       Func("Other causes ?", "nonrelational", "causes[]", "Causes"),
       Literal("Company or University", "org"),
       Func("Other skills?", "nonrelational", "skills[]", "Skills") >>

NFields == Len(FIELD_MAP)

FieldIndex(dest) == CHOOSE i \in 1..NFields : FIELD_MAP[i].dest = dest

\* the entries whose lambda goes through a linked table
IsLinked(f) == f.fn \in {"convert", "nonrelational"}

\* the list of names such a lambda hands to the linked table
NamesOf(f, d) ==
    IF f.table = "Causes" THEN _remap_list(_get_list(f.key, d), CAUSES_MAP)
    ELSE _get_list(f.key, d)

\* f(form_data) for the entries that do not go through a linked table; calling a
\* literal key (a str) is a TypeError
Call(f, d) ==
    CASE ~f.callable -> Raise("TypeError")
      [] f.fn = "city_country" ->
            LET city == Item(d, "city")
                country == Item(d, "country")
            IN  IF city.exc # "none" THEN city
                ELSE IF country.exc # "none" THEN country
                ELSE Ok(StrV(Join(<<city.val, country.val>>)))
      [] f.fn = "to_pos_int" -> _to_pos_int(f.key, d)
      [] f.fn = "checkbox" -> _checkbox_to_bool(f.key, d)
      [] f.fn = "valid_roles" ->
            Ok(StrList(_filter_in_list(_get_list(f.key, d), VALID_ROLES)))
      [] f.fn = "valid_types" ->
            Ok(StrList(_filter_in_list(_get_list(f.key, d), VALID_TYPES)))
      [] f.fn = "other_roles" ->
            Ok(_list_to_string(_filter_not_in_list(_get_list(f.key, d), VALID_ROLES)))

\* the value of a linked-table lambda once its comprehension has produced done
Linked(f, done) ==
    IF f.fn = "convert" THEN Ok(ListV(done)) ELSE Ok(_list_to_string(done))

\* a mutation of _nonrelational_list_inputs: the test is inverted
ComprehendInverted(f, done, n, record_id) ==
    IF f.fn = "convert" THEN Append(done, record_id)
    ELSE IF record_id # NoneV THEN Append(done, n) ELSE done

\* one iteration of the comprehension of _convert_to_record_ids or of
\* _nonrelational_list_inputs: linked_table[n] has returned record_id
Comprehend(f, done, n, record_id) ==
    IF f.fn = "convert" THEN Append(done, record_id)
    ELSE IF record_id = NoneV THEN Append(done, n) ELSE done

Result(exc, val, via) == [exc |-> exc, val |-> val, via |-> via]

\* the tail of _lookup_or_call: a list loses its None entries; a str is kept, and
\* for anything else _filter_none raises the TypeError that is passed over
Filtered(res) == IF res.t = "list" THEN ListV(_filter_none(res.v)) ELSE res

\* a mutation of _lookup_or_call: the fallback also catches the KeyError of f
_lookup_or_call_keyerror(form_data, f, called) ==
    IF called.exc \in {"TypeError", "KeyError"}
    THEN LET got == IF f.callable THEN Raise("KeyError") ELSE Item(form_data, f.key)
         IN  IF got.exc = "KeyError" THEN Result("none", NoneV, "fallback")
             ELSE Result("none", Filtered(StrV(got.val)), "fallback")
    ELSE IF called.exc # "none" THEN Result(called.exc, NoneV, "call")
    ELSE Result("none", Filtered(called.val), "call")

\* _lookup_or_call(form_data, f), called being the outcome of f(form_data): only a
\* TypeError of the call leads to form_data[f], and a function object is no key
\* of the form
_lookup_or_call(form_data, f, called) ==
    IF called.exc = "TypeError"
    THEN LET got == IF f.callable THEN Raise("KeyError") ELSE Item(form_data, f.key)
         IN  IF got.exc = "KeyError" THEN Result("none", NoneV, "fallback")
             ELSE Result("none", Filtered(StrV(got.val)), "fallback")
    ELSE IF called.exc # "none" THEN Result(called.exc, NoneV, "call")
    ELSE Result("none", Filtered(called.val), "call")

NoRow == [built |-> FALSE, fields |-> [k \in {} |-> NoneV]]

\* a mutation of transform_form_to_airtable: the None values are kept
transform_keep_none(computed) ==
    [built |-> TRUE,
     fields |-> [k \in {FIELD_MAP[i].dest : i \in 1..NFields} |->
                    computed[FieldIndex(k)].val]]

\* the outer comprehension of transform_form_to_airtable, computed being the
\* inner dict: the entries whose value is None are left out
transform_form_to_airtable(computed) ==
    [built |-> TRUE,
     fields |-> [k \in {FIELD_MAP[i].dest : i \in {j \in 1..NFields : computed[j].val # NoneV}} |->
                    computed[FieldIndex(k)].val]]

\* a mutation of send_to_airtable: the error of the insert is swallowed
send_to_airtable_swallow(inserted) == Ok(NoneV)

\* send_to_airtable(data), inserted being the outcome of volunteer_table.insert:
\* nothing is caught and nothing is retried
send_to_airtable(inserted) == inserted

\* submit(): the response, from the outcome of the try block
submit(outcome) == IF outcome.exc = "none" THEN "success" ELSE "error"

-----------------------------------------------------------------------------
(* The forms submitted *)

BaseForm ==
    [k \in Keys |->
        CASE k = "name" -> <<"Ada">>
          [] k = "email" -> <<"a@x.com">>
          [] k = "city" -> <<"Paris">>
          [] k = "country" -> <<"France">>
          [] k = "linked-in" -> <<"in/ada">>
          [] k = "github" -> <<"ada">>
          [] k = "non-profit-experience" -> <<"Yes">>
          [] k = "tech-exp" -> << <<"3">> >>
          [] k = "student" -> <<"on">>
          [] k = "mentor" -> <<>>
          [] k = "roles[]" -> <<"Developer", "Wizard">>
          [] k = "types[]" -> <<"Mentoring Students">>
          [] k = "skills[]" -> <<"Python">>
          [] k = "causes[]" -> <<"No Poverty">>
          [] k = "hours" -> << <<"1", "0">> >>
          [] k = "project" -> <<"Hub">>
          [] k = "other" -> <<"Hi">>
          [] k = "recommendations" -> <<"Nope">>
          [] k = "org" -> <<"ACME">>]

RECURSIVE SeqsUpTo(_, _)
\* the sequences over S of length at most n
SeqsUpTo(S, n) ==
    IF n = 0 THEN {<<>>}
    ELSE LET shorter == SeqsUpTo(S, n - 1)
         IN  shorter \cup {Append(q, x) : q \in shorter, x \in S}

SkillLists == SeqsUpTo({"Python", "Knitting"}, MaxListLen)

CauseLists == SeqsUpTo({"No Poverty", "Space Travel"}, MaxListLen)

\* the other values a key takes in the forms of the model
Alternatives(k) ==
    CASE k \in {"tech-exp", "hours"} ->
            {<<>>, << <<"-", "3">> >>, << <<"a", "b">> >>, << <<"0">> >>, << <<>> >>,
             << <<" ", "4", "2">> >>, << <<"7">>, <<"9">> >>}
      [] k \in {"student", "mentor"} -> {<<>>, <<"on">>, <<"off">>, <<"">>, <<"On">>}
      [] k = "roles[]" -> {<<>>, <<"QA">>, <<"Bard", "Designer", "Wizard", "QA">>}
      [] k = "types[]" -> {<<>>, <<"Something else", "Volunteering - Task Based">>}
      [] k = "skills[]" -> SkillLists
      [] k = "causes[]" -> CauseLists
      [] OTHER -> {<<>>}

\* the forms that differ from d in one key
Deviations(d) == UNION {{[d EXCEPT ![k] = a] : a \in Alternatives(k)} : k \in Keys}

\* the forms that differ from BaseForm in at most two keys
Forms ==
    {BaseForm} \cup Deviations(BaseForm)
    \cup UNION {Deviations(d) : d \in Deviations(BaseForm)}

\* the forms of the requests that are handled at the same time
RacingForms == {BaseForm, [BaseForm EXCEPT !["causes[]"] = <<>>]}

\* the forms that differ from BaseForm in one of the two submitted lists only
ListForms ==
    {[BaseForm EXCEPT !["skills[]"] = s] : s \in SkillLists}
    \cup {[BaseForm EXCEPT !["causes[]"] = c] : c \in CauseLists}

-----------------------------------------------------------------------------
(* Initial states *)

Threads == {"t1", "t2"}

EmptyCache == [n \in {} |-> NoneV]

NoStats == [lookups |-> 0, searches |-> 0, returned |-> {}]

\* linked tables as the process may find them when it starts
InitialRemotes ==
    { [tb \in Tables |-> [n \in LinkedNames(tb) |-> <<>>]],
      [tb \in Tables |-> [n \in LinkedNames(tb) |-> <<RecId(n)>>]],
      [tb \in Tables |-> [n \in LinkedNames(tb) |->
          IF n \in {"Python", "1. No Poverty"} THEN <<OtherRecId(n), RecId(n)>> ELSE <<>>]],
      [tb \in Tables |-> [n \in LinkedNames(tb) |->
          IF n \in {"Knitting", "1. No Poverty"} THEN <<RecId(n)>> ELSE <<>>]] }

InitThreads ==
    /\ pc = [t \in Threads |-> "idle"]
    /\ form = [t \in Threads |-> BaseForm]
    /\ fi = [t \in Threads |-> 1]
    /\ vals = [t \in Threads |-> <<>>]
    /\ ni = [t \in Threads |-> 1]
    /\ acc = [t \in Threads |-> <<>>]
    /\ found = [t \in Threads |-> NoneV]
    /\ row = [t \in Threads |-> NoRow]
    /\ raised = [t \in Threads |-> "none"]
    /\ attempts = [t \in Threads |-> <<>>]
    /\ response = [t \in Threads |-> "none"]
    /\ stored = 0
    /\ stats = [tb \in Tables |-> [n \in LinkedNames(tb) |-> NoStats]]
    /\ served = 0
    /\ changes = 0

\* skills_table and causes_table as the module constructs them
Init ==
    /\ InitThreads
    /\ cache = [tb \in Tables |-> EmptyCache]
    /\ use_cache = [tb \in Tables |-> TRUE]
    /\ remote \in InitialRemotes

\* AirTableLinkedRecords(table_name, use_cache=...) with either flag
InitResolver ==
    /\ InitThreads
    /\ cache = [tb \in Tables |-> EmptyCache]
    /\ use_cache \in [Tables -> BOOLEAN]
    /\ remote \in InitialRemotes

-----------------------------------------------------------------------------
(* submit(): one request thread *)

\* a request arrives and gets its thread: submit() enters
\* transform_form_to_airtable(request.form); alone says whether the server takes
\* one request at a time.  The threads are interchangeable, so t2 is taken only
\* after t1.
Receive(t, forms, alone) ==
    /\ pc[t] = "idle"
    /\ t = "t2" => pc["t1"] # "idle"
    /\ alone => \A u \in Threads : pc[u] \in {"idle", "done"}
    /\ \E d \in forms : form' = [form EXCEPT ![t] = d]
    /\ pc' = [pc EXCEPT ![t] = "eval"]
    /\ served' = served + 1
    /\ UNCHANGED <<fi, vals, ni, acc, found, row, raised, attempts, response,
                   cache, use_cache, remote, stored, stats, changes>>

\* the inner dict of thread t has reached computed and entry next is the one to
\* evaluate: after the last entry the row is built and handed to send_to_airtable
Computed(t, computed, next) ==
    /\ vals' = [vals EXCEPT ![t] = computed]
    /\ fi' = [fi EXCEPT ![t] = next]
    /\ ni' = [ni EXCEPT ![t] = 1]
    /\ acc' = [acc EXCEPT ![t] = <<>>]
    /\ IF next > NFields
       THEN /\ row' = [row EXCEPT ![t] = transform_form_to_airtable(computed)]
            /\ pc' = [pc EXCEPT ![t] = "send"]
       ELSE UNCHANGED <<row, pc>>
    /\ UNCHANGED <<raised, response>>

\* an exception leaves the try block of submit(): it is logged and the 500 is returned
Failed(t, exc) ==
    /\ raised' = [raised EXCEPT ![t] = exc]
    /\ response' = [response EXCEPT ![t] = submit(Raise(exc))]
    /\ pc' = [pc EXCEPT ![t] = "done"]

RECURSIVE EvalRun(_, _, _)
\* the inner comprehension of transform_form_to_airtable from entry i on, up to
\* the next entry that goes through a linked table or to the first exception
EvalRun(d, i, computed) ==
    IF i > NFields \/ IsLinked(FIELD_MAP[i])
    THEN [exc |-> "none", next |-> i, computed |-> computed]
    ELSE LET r == _lookup_or_call(d, FIELD_MAP[i], Call(FIELD_MAP[i], d))
         IN  IF r.exc # "none"
             THEN [exc |-> r.exc, next |-> i, computed |-> computed]
             ELSE EvalRun(d, i + 1, Append(computed, r))

\* _lookup_or_call for the entries that do not go through a linked table
EvalField(t) ==
    /\ pc[t] = "eval"
    /\ ~IsLinked(FIELD_MAP[fi[t]])
    /\ LET run == EvalRun(form[t], fi[t], vals[t])
       IN  IF run.exc # "none"
           THEN /\ Failed(t, run.exc)
                /\ vals' = [vals EXCEPT ![t] = run.computed]
                /\ fi' = [fi EXCEPT ![t] = run.next]
                /\ UNCHANGED <<ni, acc, row>>
           ELSE Computed(t, run.computed, run.next)
    /\ UNCHANGED <<form, found, attempts, cache, use_cache, remote, stored, stats,
                   served, changes>>

\* the name the comprehension of thread t is at
CurrentName(t) == NamesOf(FIELD_MAP[fi[t]], form[t])[ni[t]]

CurrentTable(t) == FIELD_MAP[fi[t]].table

\* linked_table[n] returns record_id to the comprehension
Returned(t, record_id) ==
    LET tb == CurrentTable(t)
        n == CurrentName(t)
    IN  /\ acc' = [acc EXCEPT ![t] = Comprehend(FIELD_MAP[fi[t]], acc[t], n, record_id)]
        /\ ni' = [ni EXCEPT ![t] = ni[t] + 1]
        /\ stats' = [stats EXCEPT ![tb][n].lookups = @ + 1,
                                  ![tb][n].returned = @ \cup {record_id}]

\* __getitem__: the cache has the name, or the KeyError is caught
GetItem(t) ==
    /\ pc[t] = "eval"
    /\ IsLinked(FIELD_MAP[fi[t]])
    /\ ni[t] <= Len(NamesOf(FIELD_MAP[fi[t]], form[t]))
    /\ IF CurrentName(t) \in Cached(CurrentTable(t))
       THEN Returned(t, cache[CurrentTable(t)][CurrentName(t)]) /\ pc' = pc
       ELSE pc' = [pc EXCEPT ![t] = "miss"] /\ UNCHANGED <<acc, ni, stats>>
    /\ UNCHANGED <<form, fi, vals, found, row, raised, attempts, response, cache,
                   use_cache, remote, stored, served, changes>>

\* record_id_by_name: the first record the search finds, or None
record_id_by_name(t) ==
    /\ pc[t] = "miss"
    /\ LET tb == CurrentTable(t)
           n == CurrentName(t)
           res == remote[tb][n]
       IN  /\ found' = [found EXCEPT ![t] = IF Len(res) = 0 THEN NoneV ELSE StrV(res[1])]
           /\ stats' = [stats EXCEPT ![tb][n].searches = @ + 1]
    /\ pc' = [pc EXCEPT ![t] = "found"]
    /\ UNCHANGED <<form, fi, vals, ni, acc, row, raised, attempts, response, cache,
                   use_cache, remote, stored, served, changes>>

\* a mutation of CacheWrite: the flag is ignored
CacheWriteAlways(tb, n, record_id) ==
    [cache EXCEPT ![tb] = [m \in DOMAIN cache[tb] \cup {n} |->
                              IF m = n THEN record_id ELSE cache[tb][m]]]

\* the cache after lines 26-27 of __getitem__
CacheWrite(tb, n, record_id) ==
    IF use_cache[tb] = TRUE
    THEN [cache EXCEPT ![tb] = [m \in DOMAIN cache[tb] \cup {n} |->
                                   IF m = n THEN record_id ELSE cache[tb][m]]]
    ELSE cache

\* __getitem__ after record_id_by_name has returned
Store(t) ==
    /\ pc[t] = "found"
    /\ cache' = CacheWrite(CurrentTable(t), CurrentName(t), found[t])
    /\ Returned(t, found[t])
    /\ pc' = [pc EXCEPT ![t] = "eval"]
    /\ UNCHANGED <<form, fi, vals, found, row, raised, attempts, response,
                   use_cache, remote, stored, served, changes>>

\* the comprehension is over: the lambda returns and _lookup_or_call finishes
FinishList(t) ==
    /\ pc[t] = "eval"
    /\ IsLinked(FIELD_MAP[fi[t]])
    /\ ni[t] > Len(NamesOf(FIELD_MAP[fi[t]], form[t]))
    /\ LET f == FIELD_MAP[fi[t]]
           r == _lookup_or_call(form[t], f, Linked(f, acc[t]))
       IN  Computed(t, Append(vals[t], r), fi[t] + 1)
    /\ UNCHANGED <<form, found, attempts, cache, use_cache, remote, stored, stats,
                   served, changes>>

RemoteErrors == {"HTTPError", "ConnectionError"}

\* volunteer_table.insert(data) succeeds
InsertOk(t) ==
    /\ pc[t] = "send"
    /\ attempts' = [attempts EXCEPT ![t] = Append(@, "none")]
    /\ stored' = stored + 1
    /\ response' = [response EXCEPT ![t] = submit(send_to_airtable(Ok(NoneV)))]
    /\ pc' = [pc EXCEPT ![t] = "done"]
    /\ UNCHANGED <<form, fi, vals, ni, acc, found, row, raised, cache, use_cache,
                   remote, stats, served, changes>>

\* volunteer_table.insert(data) raises
InsertFails(t) ==
    /\ pc[t] = "send"
    /\ \E e \in RemoteErrors :
          /\ attempts' = [attempts EXCEPT ![t] = Append(@, e)]
          /\ LET outcome == send_to_airtable(Raise(e))
             IN  /\ raised' = [raised EXCEPT ![t] = outcome.exc]
                 /\ response' = [response EXCEPT ![t] = submit(outcome)]
    /\ pc' = [pc EXCEPT ![t] = "done"]
    /\ UNCHANGED <<form, fi, vals, ni, acc, found, row, cache, use_cache,
                   remote, stored, stats, served, changes>>

\* somebody edits a linked table in AirTable.  A table is read by search() only,
\* so of all the edits only those of a name whose search is about to be issued are
\* generated: any other edit is seen, if at all, by a later search, as if it had
\* been made just before that one.
RemoteChange ==
    /\ changes < MaxRemoteChanges
    /\ \E t \in Threads :
          /\ pc[t] = "miss"
          /\ \E res \in SearchResults(CurrentName(t)) \ {remote[CurrentTable(t)][CurrentName(t)]} :
                remote' = [remote EXCEPT ![CurrentTable(t)][CurrentName(t)] = res]
    /\ changes' = changes + 1
    /\ UNCHANGED <<pc, form, fi, vals, ni, acc, found, row, raised, attempts,
                   response, cache, use_cache, stored, stats, served>>

-----------------------------------------------------------------------------
(* Specifications *)

Handle(t) ==
    \/ EvalField(t)
    \/ GetItem(t)
    \/ record_id_by_name(t)
    \/ Store(t)
    \/ FinishList(t)
    \/ InsertOk(t)
    \/ InsertFails(t)

\* the request threads of the server share the two resolvers while the linked
\* tables change
Next ==
    \/ \E t \in Threads : Receive(t, RacingForms, FALSE)
    \/ \E t \in Threads : Handle(t)
    \/ RemoteChange

Spec == Init /\ [][Next]_vars

\* one request, of any form, against linked tables that stay as they are
NextSeq ==
    \/ Receive("t1", Forms, TRUE)
    \/ Handle("t1")

SpecSeq == Init /\ [][NextSeq]_vars

\* one request at a time against resolvers built with either flag, while the
\* linked tables change
NextResolver ==
    \/ Receive("t1", ListForms, TRUE)
    \/ Handle("t1")
    \/ RemoteChange

SpecResolver == InitResolver /\ [][NextResolver]_vars

-----------------------------------------------------------------------------
(* Properties *)

SkillsField == "What amazing skills are you bringing?"

CausesField == "Which causes are you most motivated by?"

\* the entries of FIELD_MAP thread t has evaluated
Evaluated(t) == 1..Len(vals[t])

\* C1: with the cache enabled a name is searched once, whatever it resolves to,
\* and every lookup of it returns the same value, the one the cache holds; with
\* the cache disabled every lookup issues its own search and nothing is cached.
OneSearchPerNameIffCached ==
    \A tb \in Tables : \A n \in LinkedNames(tb) :
        LET st == stats[tb][n]
            searching == {t \in Threads : /\ pc[t] = "found"
                                          /\ CurrentTable(t) = tb
                                          /\ CurrentName(t) = n}
        IN  IF use_cache[tb]
            THEN /\ st.searches <= 1
                 /\ st.lookups > 0 => st.searches = 1
                 /\ Cardinality(st.returned) <= 1
                 /\ n \in Cached(tb) => st.returned \subseteq {cache[tb][n]}
                 /\ n \in Cached(tb) <=> st.searches = 1 /\ searching = {}
            ELSE /\ st.searches = st.lookups + Cardinality(searching)
                 /\ n \notin Cached(tb)

\* C1, its case: a cached name that resolved to None has been looked up four
\* times for one search, and a resolver without cache has searched a name twice
RepeatedLookupsSeen ==
    /\ use_cache["Skills"] /\ ~use_cache["Causes"]
    /\ stats["Skills"]["Python"] = [lookups |-> 4, searches |-> 1, returned |-> {NoneV}]
    /\ stats["Causes"]["1. No Poverty"].searches = 2

\* C2 as stated: no field of the row has a computed value of None, and without
\* "causes[]" entries the row has no causes field at all
NoCausesFieldWithoutCauses ==
    \A t \in Threads : row[t].built =>
        /\ \A k \in DOMAIN row[t].fields : vals[t][FieldIndex(k)].val # NoneV
        /\ form[t]["causes[]"] = <<>> =>
              /\ CausesField \notin DOMAIN row[t].fields
              /\ "Other causes ?" \notin DOMAIN row[t].fields

\* C2, amended: the row holds exactly the fields whose computed value is not
\* None, each with that value; without "causes[]" entries it holds the causes
\* field as the empty list and "Other causes ?" as the empty string
RowOmitsExactlyTheNoneValues ==
    \A t \in Threads : row[t].built =>
        /\ Len(vals[t]) = NFields
        /\ DOMAIN row[t].fields =
              {FIELD_MAP[i].dest : i \in {j \in 1..NFields : vals[t][j].val # NoneV}}
        /\ \A i \in 1..NFields : vals[t][i].val # NoneV =>
              row[t].fields[FIELD_MAP[i].dest] = vals[t][i].val
        /\ form[t]["causes[]"] = <<>> =>
              /\ CausesField \in DOMAIN row[t].fields
              /\ row[t].fields[CausesField] = ListV(<<>>)
              /\ "Other causes ?" \in DOMAIN row[t].fields
              /\ row[t].fields["Other causes ?"] = StrV("")

\* C2, its case: a row built from a form without "causes[]" and without "org"
RowWithoutCausesBuilt ==
    \E t \in Threads :
        /\ row[t].built
        /\ form[t]["causes[]"] = <<>>
        /\ form[t]["org"] = <<>>
        /\ "Company or University" \notin DOMAIN row[t].fields

\* C3 as stated: transform_form_to_airtable never raises, so every request that
\* is over has had its row built
TransformNeverRaises ==
    \A t \in Threads : pc[t] = "done" => row[t].built

RECURSIVE Decimal(_)
\* the decimal digits of a natural number
Decimal(n) ==
    IF n < 10 THEN <<CHOOSE c \in DOMAIN DigitVal : DigitVal[c] = n>>
    ELSE Append(Decimal(n \div 10), CHOOSE c \in DOMAIN DigitVal : DigitVal[c] = n % 10)

\* the number a field is to give: the one its first string writes when that is a
\* non-negative integer below 100, 0 otherwise
ExpectedPosInt(d, k) ==
    IF d[k] # <<>> /\ \E n \in 0..99 : Decimal(n) = RStrip(LStrip(d[k][1]))
    THEN CHOOSE n \in 0..99 : Decimal(n) = RStrip(LStrip(d[k][1]))
    ELSE 0

\* C4 as stated: the accessor of _to_pos_int gives int(s) for a non-negative
\* integer string and 0 for anything else, a missing field included, and no
\* request ends in an exception of one of the two numeric entries
PosIntNeverRaises ==
    \A t \in Threads : \A i \in 1..NFields : FIELD_MAP[i].fn = "to_pos_int" =>
        /\ i \in Evaluated(t) =>
              vals[t][i].val = IntV(ExpectedPosInt(form[t], FIELD_MAP[i].key))
        /\ ~(pc[t] = "done" /\ fi[t] = i /\ ~row[t].built)

\* C5: a checkbox entry is True exactly when its field is there and is "on", and
\* None otherwise, so the row has the entry, as True, in that case only
CheckboxTrueOnlyWhenOn ==
    \A t \in Threads : \A i \in Evaluated(t) : FIELD_MAP[i].fn = "checkbox" =>
        LET box == form[t][FIELD_MAP[i].key]
            on == box # <<>> /\ box[1] = "on"
        IN  /\ vals[t][i].val = IF on THEN BoolV(TRUE) ELSE NoneV
            /\ row[t].built =>
                  /\ FIELD_MAP[i].dest \in DOMAIN row[t].fields <=> on
                  /\ on => row[t].fields[FIELD_MAP[i].dest] = BoolV(TRUE)

\* C5, its case: a row built from a form whose "student" is "off" and whose
\* "mentor" is "on"
UncheckedBoxLeftOut ==
    \E t \in Threads :
        /\ row[t].built
        /\ form[t]["student"] = <<"off">>
        /\ form[t]["mentor"] = <<"on">>
        /\ "Are you a student?" \notin DOMAIN row[t].fields
        /\ row[t].fields["Are you interested in mentoring?"] = BoolV(TRUE)

Resolves(tb, n) == remote[tb][n] # <<>>

\* the identifiers of the names of the list that the table resolves, in order
ResolvedIds(tb, names) ==
    LET hits == SelectSeq(names, LAMBDA n : Resolves(tb, n))
    IN  [j \in 1..Len(hits) |-> StrV(remote[tb][hits[j]][1])]

\* the names of the list that the table does not resolve, in order
Unresolved(tb, names) == SelectSeq(names, LAMBDA n : ~Resolves(tb, n))

\* C6: the identifier list of the row is that of the names that resolve, in the
\* order submitted, and _nonrelational_list_inputs returns the names that do
\* not, in the order submitted
StablePartition ==
    \A t \in Threads : \A i \in 1..NFields :
        LET f == FIELD_MAP[i]
            names == NamesOf(f, form[t])
        IN  /\ (f.fn = "convert" /\ i \in Evaluated(t)) =>
                  vals[t][i].val = ListV(ResolvedIds(f.table, names))
            /\ (f.fn = "nonrelational" /\ pc[t] = "eval" /\ fi[t] = i
                   /\ ni[t] > Len(names)) =>
                  acc[t] = Unresolved(f.table, names)
            /\ (f.fn = "nonrelational" /\ i \in Evaluated(t)) =>
                  vals[t][i].val = StrV(Join(Unresolved(f.table, names)))

\* C6, its case: of the names Knitting, Python only Python resolves, to the first
\* of its two records
PartitionSeen ==
    \E t \in Threads :
        /\ row[t].built
        /\ form[t]["skills[]"] = <<"Knitting", "Python">>
        /\ row[t].fields[SkillsField] = ListV(<<StrV(OtherRecId("Python"))>>)
        /\ row[t].fields["Other skills?"] = StrV("Knitting")

\* C7: a request makes at most one insert; the error of an insert is the one
\* submit() catches; success is returned only with the row built and the insert
\* done, and every request that ends otherwise gets the error response
OneInsertThenAcknowledge ==
    /\ \A t \in Threads :
          /\ Len(attempts[t]) <= 1
          /\ attempts[t] # <<>> => row[t].built
          /\ response[t] = "none" <=> pc[t] # "done"
          /\ response[t] = "success" <=>
                (pc[t] = "done" /\ row[t].built /\ attempts[t] = <<"none">>)
          /\ (attempts[t] # <<>> /\ attempts[t][1] # "none") =>
                (raised[t] = attempts[t][1] /\ response[t] = "error")
          /\ (pc[t] = "done" /\ ~row[t].built) =>
                (raised[t] # "none" /\ attempts[t] = <<>> /\ response[t] = "error")
    /\ stored = Cardinality({t \in Threads : attempts[t] = <<"none">>})

\* C7, its case: the one insert of a request has raised
InsertErrorReported ==
    \E t \in Threads :
        /\ attempts[t] = <<"HTTPError">>
        /\ raised[t] = "HTTPError"
        /\ response[t] = "error"

\* C8 as stated: whatever the interleaving, all lookups of a name return the same
\* value and a cache entry, once written, keeps its value
RacingLookupsAgree ==
    [][\A tb \in Tables : \A n \in LinkedNames(tb) :
          /\ Cardinality(stats'[tb][n].returned) <= 1
          /\ n \in DOMAIN cache[tb] =>
                (n \in DOMAIN cache'[tb] /\ cache'[tb][n] = cache[tb][n])]_vars

\* C9: an entry takes the fallback exactly when it is a literal key, and then its
\* value is the first string of that key, or None without the key; the value of
\* an entry that is a function is there only if the function returned
FallbackOnlyForLiteralKeys ==
    \A t \in Threads : \A i \in Evaluated(t) :
        LET f == FIELD_MAP[i]
            r == vals[t][i]
        IN  /\ r.via = "fallback" <=> ~f.callable
            /\ ~f.callable =>
                  r.val = IF form[t][f.key] # <<>> THEN StrV(form[t][f.key][1]) ELSE NoneV
            /\ f.fn = "city_country" =>
                  /\ form[t]["city"] # <<>> /\ form[t]["country"] # <<>>
                  /\ r.val = StrV(form[t]["city"][1] \o ", " \o form[t]["country"][1])
            /\ f.fn = "to_pos_int" => form[t][f.key] # <<>>

\* C9, its case: a row built from a form without "github"
LiteralKeyMissing ==
    \E t \in Threads :
        /\ row[t].built
        /\ form[t]["github"] = <<>>
        /\ vals[t][FieldIndex("GitHub")] = Result("none", NoneV, "fallback")
        /\ vals[t][FieldIndex("Name")] = Result("none", StrV("Ada"), "fallback")

RECURSIVE Masked(_, _, _)
\* the names whose position has the value want in mask, in order
Masked(names, mask, want) ==
    IF names = <<>> THEN <<>>
    ELSE LET rest == Masked(Tail(names), [j \in 1..(Len(names) - 1) |-> mask[j + 1]], want)
         IN  IF mask[1] = want THEN <<Head(names)>> \o rest ELSE rest

\* every name is either among the identifiers or in the text, and in one only
AccountedOnce(names, ids, text) ==
    \E mask \in [1..Len(names) -> BOOLEAN] :
        LET linked == Masked(names, mask, TRUE)
        IN  /\ ids.t = "list" /\ Len(ids.v) = Len(linked)
            /\ \A j \in 1..Len(linked) :
                  ids.v[j] \in {StrV(RecId(linked[j])), StrV(OtherRecId(linked[j]))}
            /\ text = StrV(Join(Masked(names, mask, FALSE)))

\* C10 as stated: in every row each submitted skill and each remapped cause is
\* either linked by its identifier or named in the "Other" text, never both and
\* never neither
EveryNameAccountedOnce ==
    \A t \in Threads : row[t].built =>
        /\ AccountedOnce(form[t]["skills[]"], row[t].fields[SkillsField],
                         row[t].fields["Other skills?"])
        /\ AccountedOnce(_remap_list(form[t]["causes[]"], CAUSES_MAP),
                         row[t].fields[CausesField], row[t].fields["Other causes ?"])

====
